---- MODULE Spec2Model ----
(***************************************************************************)
(* Model of autopush/db.py: the Router, Storage and Message abstractions   *)
(* over DynamoDB tables.  A table is a map from keys to items, an item a   *)
(* map from attribute names to values; an attribute the item does not hold *)
(* is outside the item's DOMAIN.  Every method is one action: DynamoDB     *)
(* applies a single-item call atomically, and the methods hold no state    *)
(* between their store call and their return.                              *)
(***************************************************************************)
EXTENDS Integers, FiniteSets, Sequences, TLC

\* ------------------------------------------------------------------ bounds
MaxTime == 1          \* connected_at values are 0..MaxTime
MaxThrottled == 1     \* throughput-exceeded answers of the store in one run
MaxVersion == 2       \* notification versions are 0..MaxVersion
MaxUpdateIds == 2     \* updateids generated in one run
MaxDelta == 2         \* month offsets are -MaxDelta..MaxDelta

UAIDs == {"u1"}
\* Two users, where a call on one must leave the other's records alone.
TwoUAIDs == {"u1", "u2"}
Nodes == {"n1", "n2"}
RouterTypes == {"simplepush", "webpush"}
Months == {"message_2016_1"}
Times == 0..MaxTime
\* Channel ids are strings, modelled as sequences of characters.
CHIDs == {<<"a">>, <<"b">>}
Versions == 0..MaxVersion
MIDs == {<<"1">>}
TTLs == {0, 60}
\* An optional argument is <<>> (None) or <<value>>.  Timestamps are epoch
\* seconds of the present, hence positive.
Timestamps == {<<>>, <<1>>}
Datas == {<<>>, <<"">>, <<"d">>}
Headers == {<<>>, <<"h">>}
\* What int(time.time()) reads: later than the timestamp a caller supplies.
Now == 2

VARIABLES
    router,     \* the router table: uaid -> item
    storage,    \* the storage table: <<uaid, chid>> -> item
    message,    \* the message table: <<uaid, chidmessageid>> -> item
    metrics,    \* counter name -> number of increments
    held,       \* the router item a caller holds from get_uaid: uaid -> item
    rivals,     \* node_ids other nodes registered since the held item was read
    saved,      \* <<uaid, chid>> -> versions saved since the item was removed
    nextid,     \* the next updateid uuid.uuid4() yields: never one seen before
    dates,      \* a make_rotating_tablename call: its arguments and locals
    race,       \* the registrations nodes race with: their data
    lastOp      \* the last call: its method, arguments and outcome

vars ==
    <<router, storage, message, metrics, held, rivals, saved, nextid, dates,
      race, lastOp>>

\* ------------------------------------------------------- items and tables
NoAttrs == [a \in {} |-> 0]
NoItems == [k \in {} |-> NoAttrs]

Has(item, a) == a \in DOMAIN item

\* The attributes a condition expression sees under key k: none when no item
\* is stored there.
ItemAt(tbl, k) == IF k \in DOMAIN tbl THEN tbl[k] ELSE NoAttrs

\* PutItem: the stored item is replaced as a whole.
PutItem(tbl, k, item) ==
    [x \in DOMAIN tbl \cup {k} |-> IF x = k THEN item ELSE tbl[x]]

\* UpdateItem with a SET expression: the named attributes are written, the
\* others kept, and the item is created when there is none.
SetAttrs(tbl, k, new) ==
    LET old == ItemAt(tbl, k)
    IN  PutItem(tbl, k, [a \in DOMAIN old \cup DOMAIN new |->
                            IF a \in DOMAIN new THEN new[a] ELSE old[a]])

DeleteItem(tbl, k) == [x \in DOMAIN tbl \ {k} |-> tbl[x]]

Without(item, a) == [x \in DOMAIN item \ {a} |-> item[x]]

\* ----------------------------------------------------------------- metrics
MetricNames ==
    {"get_uaid", "register_user", "drop_user", "update_message_month",
     "clear_node", "fetch_notifications", "save_notification",
     "delete_notification", "store_message", "update_message",
     "delete_message", "delete_messages", "register_channel",
     "unregister_channel", "all_channels", "save_channels",
     "delete_messages_for_channel", "delete_user", "fetch_messages"}

RECURSIVE Total(_, _)
Total(counts, names) ==
    IF names = {} THEN 0
    ELSE LET n == CHOOSE x \in names : TRUE
         IN  counts[n] + Total(counts, names \ {n})

Throttles == Total(metrics, MetricNames)

Throughput == "ProvisionedThroughputExceededException"
ConditionFailed == "ConditionalCheckFailedException"

\* The store may answer any call with ProvisionedThroughputExceededException.
StoreThrottles == Throttles < MaxThrottled

\* self.metrics.increment("error.provisioned.%s" % name)
Increment(name) == metrics' = [metrics EXCEPT ![name] = @ + 1]

\* track_provisioned: the wrapped method raised the throughput exception; the
\* counter named after the method is incremented and the exception re-raised.
track_provisioned(name, args) ==
    /\ StoreThrottles
    /\ Increment(name)
    /\ lastOp' = [op |-> name, args |-> args, store |-> Throughput,
                  raised |-> Throughput]

InitStore ==
    /\ router = NoItems
    /\ storage = NoItems
    /\ message = NoItems
    /\ metrics = [n \in MetricNames |-> 0]
    /\ held = NoItems
    /\ rivals = {}
    /\ saved = NoItems
    /\ nextid = 1
    /\ lastOp = [op |-> "init", store |-> "ok", raised |-> "none"]
    /\ dates = [pc |-> "idle"]

\* No registrations are set to race.
NoRace == [time |-> NoAttrs, router_type |-> "none"]

Init == InitStore /\ race = NoRace

\* ------------------------------------------------------------------ Router

\* The condition with its comparison turned round.
RegisterConditionReversed(item, data) ==
    /\ IF Has(item, "router_type")
       THEN item.router_type = data.router_type
       ELSE TRUE
    /\ IF Has(item, "node_id")
       THEN IF Has(item, "connected_at")
            THEN item.connected_at > data.connected_at
            ELSE FALSE
       ELSE TRUE

\* The condition letting an equal connected_at through.
RegisterConditionOrEqual(item, data) ==
    /\ IF Has(item, "router_type")
       THEN item.router_type = data.router_type
       ELSE TRUE
    /\ IF Has(item, "node_id")
       THEN IF Has(item, "connected_at")
            THEN item.connected_at <= data.connected_at
            ELSE FALSE
       ELSE TRUE

\* The condition on router_type alone: the last writer wins.
RegisterConditionTypeOnly(item, data) ==
    IF Has(item, "router_type")
    THEN item.router_type = data.router_type
    ELSE TRUE

\* register_user's condition_expression (lines 524-530).  A comparison with
\* an attribute the item does not hold is false.
RegisterCondition(item, data) ==
    /\ IF Has(item, "router_type")
       THEN item.router_type = data.router_type
       ELSE TRUE
    /\ IF Has(item, "node_id")
       THEN IF Has(item, "connected_at")
            THEN item.connected_at < data.connected_at
            ELSE FALSE
       ELSE TRUE

RegisterData ==
    [node_id : Nodes, connected_at : Times, router_type : RouterTypes]

AsItem(data) == [a \in {"node_id", "connected_at", "router_type"} |-> data[a]]

\* A successful register_user on the uaid of the held item, naming a node
\* other than the held item's, is recorded for the holder.
NoteRival(u, data) ==
    IF u \in DOMAIN held /\ Has(held[u], "node_id")
       /\ held[u].node_id # data.node_id
    THEN rivals \cup {data.node_id}
    ELSE rivals

register_user(u, data) ==
    LET old == ItemAt(router, u)
        args == [uaid |-> u, data |-> data]
    IN  \/ /\ RegisterCondition(old, data)
           /\ router' = SetAttrs(router, u, AsItem(data))
           /\ rivals' = NoteRival(u, data)
           /\ lastOp' = [op |-> "register_user", args |-> args,
                         store |-> "ok", raised |-> "none",
                         ret |-> <<TRUE, old>>]
           /\ UNCHANGED <<storage, message, metrics, held, saved, nextid,
                          dates, race>>
        \/ /\ ~RegisterCondition(old, data)
           /\ lastOp' = [op |-> "register_user", args |-> args,
                         store |-> ConditionFailed, raised |-> "none",
                         ret |-> <<FALSE, NoAttrs>>]
           /\ UNCHANGED <<router, storage, message, metrics, held, rivals,
                          saved, nextid, dates, race>>
        \/ /\ track_provisioned("register_user", args)
           /\ UNCHANGED <<router, storage, message, held, rivals, saved,
                          nextid, dates, race>>

\* The except clauses in the other order: the throughput exception, a
\* subclass of JSONResponseError, is caught as one and nothing is counted.
GetUaidThrottledAsNotFound(args) ==
    /\ metrics' = metrics
    /\ lastOp' = [op |-> "get_uaid", args |-> args,
                  store |-> Throughput, raised |-> "ItemNotFound"]

\* get_uaid's first except clause (lines 491-496).
GetUaidThrottled(args) ==
    /\ Increment("get_uaid")
    /\ lastOp' = [op |-> "get_uaid", args |-> args,
                  store |-> Throughput, raised |-> Throughput]

\* Table.get_item(consistent=True, uaid=uaid): the stored item, or
\* ItemNotFound.  Against an empty table the store may answer with text that
\* is no JSON (JSONResponseError), which get_uaid turns into ItemNotFound.
get_uaid(u) ==
    LET args == [uaid |-> u]
    IN  \/ /\ u \in DOMAIN router
           /\ held' = PutItem(NoItems, u, router[u])
           /\ rivals' = {}
           /\ lastOp' = [op |-> "get_uaid", args |-> args, store |-> "ok",
                         raised |-> "none", ret |-> router[u]]
           /\ UNCHANGED <<router, storage, message, metrics, saved, nextid,
                          dates, race>>
        \/ /\ u \notin DOMAIN router
           /\ lastOp' = [op |-> "get_uaid", args |-> args,
                         store |-> "ItemNotFound", raised |-> "ItemNotFound"]
           /\ UNCHANGED <<router, storage, message, metrics, held, rivals,
                          saved, nextid, dates, race>>
        \/ /\ DOMAIN router = {}
           /\ lastOp' = [op |-> "get_uaid", args |-> args,
                         store |-> "JSONResponseError",
                         raised |-> "ItemNotFound"]
           /\ UNCHANGED <<router, storage, message, metrics, held, rivals,
                          saved, nextid, dates, race>>
        \/ /\ StoreThrottles
           /\ GetUaidThrottled(args)
           /\ UNCHANGED <<router, storage, message, held, rivals, saved,
                          nextid, dates, race>>

\* The delete that looks at no expectation.
TableDeleteItemUnguarded(tbl, k, expected) == <<TRUE, DeleteItem(tbl, k)>>

\* Table.delete_item(expected=...): the item is deleted and True returned when
\* the expectation holds of the stored item; otherwise nothing is deleted and
\* False is returned (drop_user returns this value as its own).
TableDeleteItem(tbl, k, expected) ==
    IF expected THEN <<TRUE, DeleteItem(tbl, k)>> ELSE <<FALSE, tbl>>

drop_user(u) ==
    LET args == [uaid |-> u]
        res == TableDeleteItem(router, u, u \in DOMAIN router)
    IN  \/ /\ router' = res[2]
           /\ lastOp' = [op |-> "drop_user", args |-> args,
                         store |-> IF res[1] THEN "ok" ELSE ConditionFailed,
                         raised |-> "none", ret |-> res[1]]
           /\ UNCHANGED <<storage, message, metrics, held, rivals, saved,
                          nextid, dates, race>>
        \/ /\ track_provisioned("drop_user", args)
           /\ UNCHANGED <<router, storage, message, held, rivals, saved,
                          nextid, dates, race>>

update_message_month(u, month) ==
    LET args == [uaid |-> u, month |-> month]
    IN  \/ /\ router' = SetAttrs(router, u,
                                 [a \in {"current_month"} |-> month])
           /\ lastOp' = [op |-> "update_message_month", args |-> args,
                         store |-> "ok", raised |-> "none", ret |-> TRUE]
           /\ UNCHANGED <<storage, message, metrics, held, rivals, saved,
                          nextid, dates, race>>
        \/ /\ track_provisioned("update_message_month", args)
           /\ UNCHANGED <<router, storage, message, held, rivals, saved,
                          nextid, dates, race>>

\* The condition comparing connected_at alone.
ClearConditionTimeOnly(stored, node_id, connected_at) ==
    IF Has(stored, "connected_at")
    THEN stored.connected_at = connected_at
    ELSE FALSE

\* clear_node's condition_expression (line 594): both attributes must be held
\* by the stored item and equal the values of the caller's item.
ClearCondition(stored, node_id, connected_at) ==
    /\ IF Has(stored, "node_id") THEN stored.node_id = node_id ELSE FALSE
    /\ IF Has(stored, "connected_at")
       THEN stored.connected_at = connected_at
       ELSE FALSE

\* clear_node(item): item is the caller's own copy of the record, read by
\* get_uaid and holding a node_id.  node_id is deleted from the copy before
\* the store is called, and the copy is what put_item writes.
clear_node(u) ==
    /\ u \in DOMAIN held
    /\ Has(held[u], "node_id")
    /\ LET node_id == held[u].node_id
           item == Without(held[u], "node_id")
           args == [uaid |-> u, item |-> held[u]]
       IN  /\ held' = PutItem(held, u, item)
           /\ \/ /\ ClearCondition(ItemAt(router, u), node_id,
                                   item.connected_at)
                 /\ router' = PutItem(router, u, item)
                 /\ lastOp' = [op |-> "clear_node", args |-> args,
                               store |-> "ok", raised |-> "none",
                               ret |-> TRUE]
                 /\ UNCHANGED <<storage, message, metrics, rivals, saved,
                                nextid, dates, race>>
              \/ /\ ~ClearCondition(ItemAt(router, u), node_id,
                                    item.connected_at)
                 /\ lastOp' = [op |-> "clear_node", args |-> args,
                               store |-> ConditionFailed, raised |-> "none",
                               ret |-> FALSE]
                 /\ UNCHANGED <<router, storage, message, metrics, rivals,
                                saved, nextid, dates, race>>
              \/ /\ track_provisioned("clear_node", args)
                 /\ UNCHANGED <<router, storage, message, rivals, saved,
                                nextid, dates, race>>

NextRouter ==
    \/ \E u \in UAIDs : \E data \in RegisterData : register_user(u, data)
    \/ \E u \in UAIDs : get_uaid(u)
    \/ \E u \in UAIDs : drop_user(u)
    \/ \E u \in UAIDs : \E month \in Months : update_message_month(u, month)
    \/ \E u \in UAIDs : clear_node(u)

SpecRouter == Init /\ [][NextRouter]_vars

\* Several nodes register one user at about the same time: each its own
\* node_id and a connected_at of its own, all the same router_type.
RaceNodes == {"n1", "n2", "n3"}
RaceTimes == 0..(MaxTime + 1)
Races ==
    {r \in [time : [RaceNodes -> RaceTimes], router_type : RouterTypes] :
        \A m, n \in RaceNodes : m # n => r.time[m] # r.time[n]}

RaceData(n) ==
    [node_id |-> n, connected_at |-> race.time[n],
     router_type |-> race.router_type]

InitRace == InitStore /\ race \in Races

\* The nodes' calls in any order, a call possibly made again, with reads and
\* month updates between them and no clear_node or drop_user.
NextRace ==
    \/ \E u \in UAIDs, n \in RaceNodes : register_user(u, RaceData(n))
    \/ \E u \in UAIDs : get_uaid(u)
    \/ \E u \in UAIDs : \E month \in Months : update_message_month(u, month)

SpecRace == InitRace /\ [][NextRace]_vars

\* The calls that create and remove the records of two users.
NextDrop ==
    \/ \E u \in TwoUAIDs : \E data \in RegisterData : register_user(u, data)
    \/ \E u \in TwoUAIDs : \E month \in Months :
          update_message_month(u, month)
    \/ \E u \in TwoUAIDs : drop_user(u)

SpecDrop == Init /\ [][NextDrop]_vars

\* ----------------------------------------------------------------- Storage

\* Python's truth test of an optional integer argument: None and 0 are false.
TruthyInt(opt) == IF opt = <<>> THEN FALSE ELSE opt[1] # 0

Remember(k, version) ==
    [x \in DOMAIN saved \cup {k} |->
        IF x # k THEN saved[x]
        ELSE IF k \in DOMAIN saved THEN saved[k] \cup {version}
        ELSE {version}]

\* The put with no condition at all.
SaveConditionNone(item, version) == TRUE

\* save_notification's condition_expression (line 232).
SaveCondition(item, version) ==
    IF Has(item, "version") THEN item.version < version ELSE TRUE

save_notification(u, chid, version) ==
    LET k == <<u, chid>>
        args == [uaid |-> u, chid |-> chid, version |-> version]
    IN  \/ /\ SaveCondition(ItemAt(storage, k), version)
           /\ storage' = PutItem(storage, k, [a \in {"version"} |-> version])
           /\ saved' = Remember(k, version)
           /\ lastOp' = [op |-> "save_notification", args |-> args,
                         store |-> "ok", raised |-> "none", ret |-> TRUE]
           /\ UNCHANGED <<router, message, metrics, held, rivals, nextid,
                          dates, race>>
        \/ /\ ~SaveCondition(ItemAt(storage, k), version)
           /\ saved' = Remember(k, version)
           /\ lastOp' = [op |-> "save_notification", args |-> args,
                         store |-> ConditionFailed, raised |-> "none",
                         ret |-> FALSE]
           /\ UNCHANGED <<router, storage, message, metrics, held, rivals,
                          nextid, dates, race>>
        \/ /\ track_provisioned("save_notification", args)
           /\ UNCHANGED <<router, storage, message, held, rivals, saved,
                          nextid, dates, race>>

\* The throughput exception left to the caller, as track_provisioned does.
DeleteNotificationReraises(args) ==
    /\ Increment("delete_notification")
    /\ lastOp' = [op |-> "delete_notification", args |-> args,
                  store |-> Throughput, raised |-> Throughput]

\* delete_notification's except clause (lines 259-261).
DeleteNotificationThrottled(args) ==
    /\ Increment("delete_notification")
    /\ lastOp' = [op |-> "delete_notification", args |-> args,
                  store |-> Throughput, raised |-> "none", ret |-> FALSE]

\* delete_notification(uaid, chid, version=None): what Table.delete_item
\* returns is dropped, and True returned.
delete_notification(u, chid, version) ==
    LET k == <<u, chid>>
        item == ItemAt(storage, k)
        args == [uaid |-> u, chid |-> chid, version |-> version]
        res == IF TruthyInt(version)
               THEN TableDeleteItem(storage, k,
                        IF Has(item, "version")
                        THEN item.version = version[1] ELSE FALSE)
               ELSE TableDeleteItem(storage, k, TRUE)
    IN  \/ /\ storage' = res[2]
           /\ saved' = IF k \in DOMAIN res[2] THEN saved
                       ELSE DeleteItem(saved, k)
           /\ lastOp' = [op |-> "delete_notification", args |-> args,
                         store |-> IF res[1] THEN "ok" ELSE ConditionFailed,
                         raised |-> "none", ret |-> TRUE]
           /\ UNCHANGED <<router, message, metrics, held, rivals, nextid,
                          dates, race>>
        \/ /\ StoreThrottles
           /\ DeleteNotificationThrottled(args)
           /\ UNCHANGED <<router, storage, message, held, rivals, saved,
                          nextid, dates, race>>

NextStorage ==
    \/ \E u \in UAIDs : \E chid \in CHIDs : \E version \in Versions :
          save_notification(u, chid, version)
    \/ \E u \in UAIDs : \E chid \in CHIDs :
          \E version \in {<<>>} \cup {<<v>> : v \in Versions} :
            delete_notification(u, chid, version)

SpecStorage == Init /\ [][NextStorage]_vars

\* ----------------------------------------------------------------- Message

\* Python's truth test of an optional string argument: None and "" are false.
TruthyStr(opt) == IF opt = <<>> THEN FALSE ELSE opt[1] # ""

\* "%s:%s" % (channel_id, message_id)
ChidMessageId(chid, mid) == chid \o <<":">> \o mid

\* The attributes of new that the library stores: it leaves out None and
\* empty values.
Storable(new) == [a \in {x \in DOMAIN new : TruthyStr(new[x])} |-> new[a]]

\* store_message's item: data and headers are kept in the form of the
\* argument, <<value>>.
MessageItem(ttl, data, headers, timestamp, updateid) ==
    LET fixed == [a \in {"ttl", "timestamp", "updateid"} |->
                    IF a = "ttl" THEN ttl
                    ELSE IF a = "updateid" THEN updateid
                    ELSE IF TruthyInt(timestamp) THEN timestamp[1] ELSE Now]
        opt == Storable([a \in {"data", "headers"} |->
                            IF a = "data" THEN data ELSE headers])
    IN  [a \in DOMAIN fixed \cup DOMAIN opt |->
            IF a \in DOMAIN fixed THEN fixed[a] ELSE opt[a]]

\* Table.put_item(data=item) is called without overwrite=True.  Whether the
\* library then refuses to replace an item stored under the key is decided
\* outside db.py, so both answers are kept: the item is replaced, or
\* ConditionalCheckFailedException is raised and reaches the caller.
store_message(u, chid, mid, ttl, data, headers, timestamp) ==
    LET k == <<u, ChidMessageId(chid, mid)>>
        args == [uaid |-> u, chid |-> chid, mid |-> mid, ttl |-> ttl,
                 data |-> data, headers |-> headers, timestamp |-> timestamp]
    IN  \/ /\ nextid <= MaxUpdateIds
           /\ message' = PutItem(message, k,
                            MessageItem(ttl, data, headers, timestamp, nextid))
           /\ nextid' = nextid + 1
           /\ lastOp' = [op |-> "store_message", args |-> args,
                         store |-> "ok", raised |-> "none", ret |-> TRUE]
           /\ UNCHANGED <<router, storage, metrics, held, rivals, saved,
                          dates, race>>
        \/ /\ k \in DOMAIN message
           /\ lastOp' = [op |-> "store_message", args |-> args,
                         store |-> ConditionFailed, raised |-> ConditionFailed]
           /\ UNCHANGED <<router, storage, message, metrics, held, rivals,
                          saved, nextid, dates, race>>
        \/ /\ track_provisioned("store_message", args)
           /\ UNCHANGED <<router, storage, message, held, rivals, saved,
                          nextid, dates, race>>

\* The update with no condition on the stored item.
UpdateConditionNone(item) == TRUE

\* update_message's condition_expression (line 394).
UpdateCondition(item) == Has(item, "updateid")

\* The update that sets and never removes: without data, the data and headers
\* stored before stay.
UpdatedItemKeepsStale(old, ttl, data, headers, timestamp, updateid) ==
    LET set == [a \in {"ttl", "timestamp", "updateid"} \cup
                      (IF TruthyStr(data) THEN {"data", "headers"} ELSE {})
                |-> IF a = "ttl" THEN ttl
                    ELSE IF a = "updateid" THEN updateid
                    ELSE IF a = "timestamp"
                    THEN (IF TruthyInt(timestamp) THEN timestamp[1] ELSE Now)
                    ELSE IF a = "data" THEN data
                    ELSE headers]
    IN  [a \in DOMAIN old \cup DOMAIN set |->
            IF a \in DOMAIN set THEN set[a] ELSE old[a]]

\* update_message's update_expression (lines 383-388): ttl, timestamp and
\* updateid are set; data and headers are set when data is true, and removed
\* otherwise.
UpdatedItem(old, ttl, data, headers, timestamp, updateid) ==
    LET set == [a \in {"ttl", "timestamp", "updateid"} \cup
                      (IF TruthyStr(data) THEN {"data", "headers"} ELSE {})
                |-> IF a = "ttl" THEN ttl
                    ELSE IF a = "updateid" THEN updateid
                    ELSE IF a = "timestamp"
                    THEN (IF TruthyInt(timestamp) THEN timestamp[1] ELSE Now)
                    ELSE IF a = "data" THEN data
                    ELSE headers]
        kept == DOMAIN old \ {"data", "headers"}
    IN  [a \in kept \cup DOMAIN set |->
            IF a \in DOMAIN set THEN set[a] ELSE old[a]]

update_message(u, chid, mid, ttl, data, headers, timestamp) ==
    LET k == <<u, ChidMessageId(chid, mid)>>
        old == ItemAt(message, k)
        args == [uaid |-> u, chid |-> chid, mid |-> mid, ttl |-> ttl,
                 data |-> data, headers |-> headers, timestamp |-> timestamp]
    IN  \/ /\ nextid <= MaxUpdateIds
           /\ UpdateCondition(old)
           /\ message' = PutItem(message, k,
                  UpdatedItem(old, ttl, data, headers, timestamp, nextid))
           /\ nextid' = nextid + 1
           /\ lastOp' = [op |-> "update_message", args |-> args,
                         store |-> "ok", raised |-> "none", ret |-> TRUE]
           /\ UNCHANGED <<router, storage, metrics, held, rivals, saved,
                          dates, race>>
        \/ /\ ~UpdateCondition(old)
           /\ lastOp' = [op |-> "update_message", args |-> args,
                         store |-> ConditionFailed, raised |-> "none",
                         ret |-> FALSE]
           /\ UNCHANGED <<router, storage, message, metrics, held, rivals,
                          saved, nextid, dates, race>>
        \/ /\ track_provisioned("update_message", args)
           /\ UNCHANGED <<router, storage, message, held, rivals, saved,
                          nextid, dates, race>>

\* delete_message(uaid, channel_id, message_id, updateid=None).  With an
\* updateid the delete is guarded; Table.delete_item answers a failed guard
\* by returning False, which is dropped, so the except clause of lines
\* 413-414 is not entered and True is returned on either answer.
delete_message(u, chid, mid, updateid) ==
    LET k == <<u, ChidMessageId(chid, mid)>>
        item == ItemAt(message, k)
        args == [uaid |-> u, chid |-> chid, mid |-> mid,
                 updateid |-> updateid]
        res == IF updateid # <<>>
               THEN TableDeleteItem(message, k,
                        IF Has(item, "updateid")
                        THEN item.updateid = updateid[1] ELSE FALSE)
               ELSE TableDeleteItem(message, k, TRUE)
    IN  \/ /\ message' = res[2]
           /\ lastOp' = [op |-> "delete_message", args |-> args,
                         store |-> IF res[1] THEN "ok" ELSE ConditionFailed,
                         raised |-> "none", ret |-> TRUE]
           /\ UNCHANGED <<router, storage, metrics, held, rivals, saved,
                          nextid, dates, race>>
        \/ /\ track_provisioned("delete_message", args)
           /\ UNCHANGED <<router, storage, message, held, rivals, saved,
                          nextid, dates, race>>

\* delete_messages(uaid, chidmessageids): one batch of deletes, the empty ids
\* skipped.  The method is not wrapped by track_provisioned: a throughput
\* exception of the batch leaves it with no counter incremented.
BatchDelete(tbl, u, chidmessageids) ==
    LET gone == {<<u, id>> : id \in chidmessageids \ {<<>>}}
    IN  [k \in DOMAIN tbl \ gone |-> tbl[k]]

delete_messages(u, chidmessageids) ==
    LET args == [uaid |-> u, chidmessageids |-> chidmessageids]
    IN  \/ /\ message' = BatchDelete(message, u, chidmessageids)
           /\ lastOp' = [op |-> "delete_messages", args |-> args,
                         store |-> "ok", raised |-> "none"]
           /\ UNCHANGED <<router, storage, metrics, held, rivals, saved,
                          nextid, dates, race>>
        \/ /\ StoreThrottles
           /\ lastOp' = [op |-> "delete_messages", args |-> args,
                         store |-> Throughput, raised |-> Throughput]
           /\ UNCHANGED <<router, storage, message, metrics, held, rivals,
                          saved, nextid, dates, race>>

ChidMessageIds == {ChidMessageId(chid, mid) : chid \in CHIDs, mid \in MIDs}

\* The calls on one message, with every combination of its attributes.
OneChid == {<<"a">>}

NextMessage ==
    \/ \E u \in UAIDs, chid \in OneChid, mid \in MIDs, ttl \in TTLs,
          data \in Datas, headers \in Headers, timestamp \in Timestamps :
            store_message(u, chid, mid, ttl, data, headers, timestamp)
    \/ \E u \in UAIDs, chid \in OneChid, mid \in MIDs, ttl \in TTLs,
          data \in Datas, headers \in Headers, timestamp \in Timestamps :
            update_message(u, chid, mid, ttl, data, headers, timestamp)
    \/ \E u \in UAIDs, chid \in OneChid, mid \in MIDs :
          \E updateid \in {<<>>} \cup {<<i>> : i \in 1..(nextid - 1)} :
            delete_message(u, chid, mid, updateid)
    \/ \E u \in UAIDs : \E ids \in SUBSET (ChidMessageIds \cup {<<>>}) :
          delete_messages(u, ids)

SpecMessage == Init /\ [][NextMessage]_vars

\* ------------------------------------------- Message: the channel registry

\* The registry of a uaid is the item under the chidmessageid " ".
Sentinel == <<" ">>
RegistryKey(u) == <<u, Sentinel>>

\* The stored channel set; an item without the attribute holds none.
ChidsOf(item) == IF Has(item, "chids") THEN item.chids ELSE {}

\* The update that writes the one-element set over the stored set.
AddChidOverwrites(item, chid) ==
    [a \in DOMAIN item \cup {"chids"} |->
        IF a = "chids" THEN {chid} ELSE item[a]]

\* The update that takes out an element it finds stored.
AddChidToggles(item, chid) ==
    IF chid \in ChidsOf(item)
    THEN (IF ChidsOf(item) = {chid} THEN Without(item, "chids")
          ELSE [item EXCEPT !.chids = @ \ {chid}])
    ELSE [a \in DOMAIN item \cup {"chids"} |->
            IF a = "chids" THEN ChidsOf(item) \cup {chid} ELSE item[a]]

\* "ADD chids :channel_id": the union with the stored set; an absent
\* attribute or item counts as the empty set, the other attributes stay.
AddChid(item, chid) ==
    [a \in DOMAIN item \cup {"chids"} |->
        IF a = "chids" THEN ChidsOf(item) \cup {chid} ELSE item[a]]

\* "DELETE chids :channel_id": the element is taken from the stored set; a
\* set left empty is no attribute value, the attribute goes.
DeleteChid(item, chid) ==
    IF ChidsOf(item) \ {chid} = {}
    THEN Without(item, "chids")
    ELSE [item EXCEPT !.chids = @ \ {chid}]

\* register_channel returns True; the record of the call also keeps the
\* channel set the update found (before), which the caller is not told.
register_channel(u, chid) ==
    LET k == RegistryKey(u)
        args == [uaid |-> u, chid |-> chid]
    IN  \/ /\ message' = PutItem(message, k, AddChid(ItemAt(message, k), chid))
           /\ lastOp' = [op |-> "register_channel", args |-> args,
                         store |-> "ok", raised |-> "none", ret |-> TRUE,
                         before |-> ChidsOf(ItemAt(message, k))]
           /\ UNCHANGED <<router, storage, metrics, held, rivals, saved,
                          nextid, dates, race>>
        \/ /\ track_provisioned("register_channel", args)
           /\ UNCHANGED <<router, storage, message, held, rivals, saved,
                          nextid, dates, race>>

\* The answer True whenever any chids were stored.
HadAnyChids(old, chid) == Has(old, "chids")

\* Lines 309-316: channel_id in the decoded chids, False when none came back.
WasMember(old, chid) == IF Has(old, "chids") THEN chid \in old.chids ELSE FALSE

\* unregister_channel: the update returns the chids stored before it
\* (UPDATED_OLD), and the answer is the membership of channel_id in them.
\* Whether an update that only deletes creates the item when the key holds
\* none is the store's choice; both outcomes are kept.
unregister_channel(u, chid) ==
    LET k == RegistryKey(u)
        old == ItemAt(message, k)
        args == [uaid |-> u, chid |-> chid]
    IN  \/ /\ \E created \in BOOLEAN :
                 message' = IF k \in DOMAIN message \/ created
                            THEN PutItem(message, k, DeleteChid(old, chid))
                            ELSE message
           /\ lastOp' = [op |-> "unregister_channel", args |-> args,
                         store |-> "ok", raised |-> "none",
                         ret |-> WasMember(old, chid)]
           /\ UNCHANGED <<router, storage, metrics, held, rivals, saved,
                          nextid, dates, race>>
        \/ /\ track_provisioned("unregister_channel", args)
           /\ UNCHANGED <<router, storage, message, held, rivals, saved,
                          nextid, dates, race>>

\* all_channels: (True, result["chids"] or set([])) of the registry item,
\* (False, set([])) when there is none.
all_channels(u) ==
    LET k == RegistryKey(u)
        args == [uaid |-> u]
    IN  \/ /\ k \in DOMAIN message
           /\ lastOp' = [op |-> "all_channels", args |-> args,
                         store |-> "ok", raised |-> "none",
                         ret |-> <<TRUE, ChidsOf(message[k])>>]
           /\ UNCHANGED <<router, storage, message, metrics, held, rivals,
                          saved, nextid, dates, race>>
        \/ /\ k \notin DOMAIN message
           /\ lastOp' = [op |-> "all_channels", args |-> args,
                         store |-> "ItemNotFound", raised |-> "none",
                         ret |-> <<FALSE, {}>>]
           /\ UNCHANGED <<router, storage, message, metrics, held, rivals,
                          saved, nextid, dates, race>>
        \/ /\ track_provisioned("all_channels", args)
           /\ UNCHANGED <<router, storage, message, held, rivals, saved,
                          nextid, dates, race>>

\* save_channels: Table.put_item(data=...) of the whole registry item, again
\* without overwrite=True (see store_message).  An empty set is not stored.
save_channels(u, channels) ==
    LET k == RegistryKey(u)
        args == [uaid |-> u, channels |-> channels]
        item == IF channels = {} THEN NoAttrs
                ELSE [a \in {"chids"} |-> channels]
    IN  \/ /\ message' = PutItem(message, k, item)
           /\ lastOp' = [op |-> "save_channels", args |-> args,
                         store |-> "ok", raised |-> "none", ret |-> "None"]
           /\ UNCHANGED <<router, storage, metrics, held, rivals, saved,
                          nextid, dates, race>>
        \/ /\ k \in DOMAIN message
           /\ lastOp' = [op |-> "save_channels", args |-> args,
                         store |-> ConditionFailed, raised |-> ConditionFailed]
           /\ UNCHANGED <<router, storage, message, metrics, held, rivals,
                          saved, nextid, dates, race>>
        \/ /\ track_provisioned("save_channels", args)
           /\ UNCHANGED <<router, storage, message, held, rivals, saved,
                          nextid, dates, race>>

\* ------------------------------------------------ Message: range queries

\* The store orders strings by their bytes.
Ord(c) ==
    CASE c = " " -> 32 [] c = "1" -> 49 [] c = "2" -> 50 [] c = ":" -> 58
      [] c = "a" -> 97 [] c = "b" -> 98

RECURSIVE StrLess(_, _)
StrLess(s, t) ==
    IF t = <<>> THEN FALSE
    ELSE IF s = <<>> THEN TRUE
    ELSE IF Ord(Head(s)) < Ord(Head(t)) THEN TRUE
    ELSE IF Ord(Head(s)) > Ord(Head(t)) THEN FALSE
    ELSE StrLess(Tail(s), Tail(t))

\* chidmessageid__beginswith
BeginsWith(s, prefix) ==
    IF Len(s) < Len(prefix) THEN FALSE
    ELSE SubSeq(s, 1, Len(prefix)) = prefix

\* The chidmessageids stored for a uaid.
IdsOf(tbl, u) == {k[2] : k \in {x \in DOMAIN tbl : x[1] = u}}

\* A query answers in ascending order of the range key.
RECURSIVE Ascending(_)
Ascending(S) ==
    IF S = {} THEN <<>>
    ELSE LET least == CHOOSE x \in S : \A y \in S : x = y \/ StrLess(x, y)
         IN  <<least>> \o Ascending(S \ {least})

\* The query for the ids that begin with the chid alone.
ChannelQueryNoColon(tbl, u, chid) ==
    {id \in IdsOf(tbl, u) : BeginsWith(id, chid)}

\* delete_messages_for_channel's query: the ids that begin with "chid:".
ChannelQuery(tbl, u, chid) ==
    {id \in IdsOf(tbl, u) : BeginsWith(id, chid \o <<":">>)}

delete_messages_for_channel(u, chid) ==
    LET args == [uaid |-> u, chid |-> chid]
        chidmessageids == ChannelQuery(message, u, chid)
    IN  \/ /\ message' = IF chidmessageids # {}
                         THEN BatchDelete(message, u, chidmessageids)
                         ELSE message
           /\ lastOp' = [op |-> "delete_messages_for_channel",
                         args |-> args, store |-> "ok", raised |-> "none",
                         ret |-> chidmessageids # {},
                         chidmessageids |-> chidmessageids]
           /\ UNCHANGED <<router, storage, metrics, held, rivals, saved,
                          nextid, dates, race>>
        \/ /\ track_provisioned("delete_messages_for_channel", args)
           /\ UNCHANGED <<router, storage, message, held, rivals, saved,
                          nextid, dates, race>>

\* The query for chidmessageid > " ".
UserQueryAfterSentinel(tbl, u) ==
    {id \in IdsOf(tbl, u) : StrLess(Sentinel, id)}

\* delete_user's query: chidmessageid >= " ".
UserQuery(tbl, u) ==
    {id \in IdsOf(tbl, u) : id = Sentinel \/ StrLess(Sentinel, id)}

delete_user(u) ==
    LET args == [uaid |-> u]
        chidmessageids == UserQuery(message, u)
    IN  \/ /\ message' = IF chidmessageids # {}
                         THEN BatchDelete(message, u, chidmessageids)
                         ELSE message
           /\ lastOp' = [op |-> "delete_user", args |-> args,
                         store |-> "ok", raised |-> "none", ret |-> "None",
                         chidmessageids |-> chidmessageids]
           /\ UNCHANGED <<router, storage, metrics, held, rivals, saved,
                          nextid, dates, race>>
        \/ /\ track_provisioned("delete_user", args)
           /\ UNCHANGED <<router, storage, message, held, rivals, saved,
                          nextid, dates, race>>

\* The query for chidmessageid >= " ".
MessageQueryFromSentinel(tbl, u, limit) ==
    LET all == Ascending(IdsOf(tbl, u))
    IN  SubSeq(all, 1, IF limit < Len(all) THEN limit ELSE Len(all))

\* fetch_messages's query: chidmessageid > " ", at most limit results.
MessageQuery(tbl, u, limit) ==
    LET all == Ascending({id \in IdsOf(tbl, u) : StrLess(Sentinel, id)})
    IN  SubSeq(all, 1, IF limit < Len(all) THEN limit ELSE Len(all))

fetch_messages(u, limit) ==
    LET args == [uaid |-> u, limit |-> limit]
        ids == MessageQuery(message, u, limit)
    IN  \/ /\ lastOp' = [op |-> "fetch_messages", args |-> args,
                         store |-> "ok", raised |-> "none",
                         ret |-> [i \in 1..Len(ids) |->
                                    [uaid |-> u, chidmessageid |-> ids[i],
                                     item |-> message[<<u, ids[i]>>]]]]
           /\ UNCHANGED <<router, storage, message, metrics, held, rivals,
                          saved, nextid, dates, race>>
        \/ /\ track_provisioned("fetch_messages", args)
           /\ UNCHANGED <<router, storage, message, held, rivals, saved,
                          nextid, dates, race>>

\* Two channels of which one id is the beginning of the other.
ChannelCHIDs == {<<"a">>, <<"a", "b">>}
\* fetch_messages's limit: one, and the default.
Limits == {1, 10}

NextChannels ==
    \/ \E u \in TwoUAIDs, chid \in ChannelCHIDs : register_channel(u, chid)
    \/ \E u \in TwoUAIDs, chid \in ChannelCHIDs : unregister_channel(u, chid)
    \/ \E u \in TwoUAIDs : all_channels(u)
    \/ \E u \in TwoUAIDs : \E channels \in SUBSET ChannelCHIDs :
          save_channels(u, channels)
    \/ \E u \in TwoUAIDs, chid \in ChannelCHIDs, mid \in MIDs :
          store_message(u, chid, mid, 0, <<>>, <<>>, <<>>)
    \/ \E u \in TwoUAIDs, chid \in ChannelCHIDs :
          delete_messages_for_channel(u, chid)
    \/ \E u \in TwoUAIDs : delete_user(u)
    \/ \E u \in TwoUAIDs, limit \in Limits : fetch_messages(u, limit)

SpecChannels == Init /\ [][NextChannels]_vars

\* The calls that write and read the channel registries alone.
NextRegistry ==
    \/ \E u \in TwoUAIDs, chid \in ChannelCHIDs : register_channel(u, chid)
    \/ \E u \in TwoUAIDs, chid \in ChannelCHIDs : unregister_channel(u, chid)
    \/ \E u \in TwoUAIDs : all_channels(u)
    \/ \E u \in TwoUAIDs : \E channels \in SUBSET ChannelCHIDs :
          save_channels(u, channels)
    \/ \E u \in TwoUAIDs : delete_user(u)

SpecRegistry == Init /\ [][NextRegistry]_vars

\* ------------------------------------------- get_month and the table names

\* datetime.date: a day of the proleptic Gregorian calendar.
IsLeap(year) == (year % 4 = 0 /\ year % 100 # 0) \/ year % 400 = 0

DaysIn(year, month) ==
    IF month = 2 THEN (IF IsLeap(year) THEN 29 ELSE 28)
    ELSE IF month \in {4, 6, 9, 11} THEN 30
    ELSE 31

\* A date whose day has run out of its month is carried into the month
\* after or before.
Carry(date) ==
    IF date.day > DaysIn(date.year, date.month)
    THEN IF date.month < 12
         THEN [year |-> date.year, month |-> date.month + 1,
               day |-> date.day - DaysIn(date.year, date.month)]
         ELSE [year |-> date.year + 1, month |-> 1, day |-> date.day - 31]
    ELSE IF date.day < 1
    THEN IF date.month > 1
         THEN [year |-> date.year, month |-> date.month - 1,
               day |-> date.day + DaysIn(date.year, date.month - 1)]
         ELSE [year |-> date.year - 1, month |-> 12, day |-> date.day + 31]
    ELSE date

\* date + datetime.timedelta(days=days), for at most eight weeks either way:
\* no more than two ends of a month are passed.
AddDays(date, days) == Carry(Carry([date EXCEPT !.day = @ + days]))

\* The step of five weeks.
MoveFiveWeeks(date, delta) ==
    IF delta < 0 THEN AddDays(date, -35) ELSE AddDays(date, 35)

\* Lines 34-37: new moves by fourteen days, back for a negative delta.
Move(date, delta) ==
    IF delta < 0 THEN AddDays(date, -14) ELSE AddDays(date, 14)

\* str.format of a non-negative integer: its decimal digits, no padding.
DigitChars == <<"0", "1", "2", "3", "4", "5", "6", "7", "8", "9">>

RECURSIVE Decimal(_)
Decimal(n) ==
    IF n < 10 THEN <<DigitChars[n + 1]>>
    ELSE Decimal(n \div 10) \o <<DigitChars[(n % 10) + 1]>>

\* "{}_{}_{}".format(prefix, date.year, date.month)
TableName(prefix, date) ==
    prefix \o <<"_">> \o Decimal(date.year) \o <<"_">> \o Decimal(date.month)

Years == {2015, 2016}
Todays ==
    {date \in [year : Years, month : 1..12, day : 1..31] :
        date.day <= DaysIn(date.year, date.month)}
Deltas == (0 - MaxDelta)..MaxDelta
Prefix == <<"m", "e", "s", "s", "a", "g", "e">>

\* make_rotating_tablename(prefix, delta) is called on the day today:
\* get_month reads today's date into new and last (line 28), and
\* range(abs(delta)) has left iterations to give.
get_month(prefix, today, delta) ==
    /\ dates.pc = "idle"
    /\ dates' = [pc |-> "get_month", prefix |-> prefix, today |-> today,
                 delta |-> delta, new |-> today, last |-> today,
                 left |-> IF delta < 0 THEN 0 - delta ELSE delta]
    /\ UNCHANGED <<router, storage, message, metrics, held, rivals, saved,
                   nextid, lastOp, race>>

\* One turn of the while loop (lines 33-37).
get_month_move ==
    /\ dates.pc = "get_month"
    /\ dates.left > 0
    /\ dates.new.month = dates.last.month
    /\ dates' = [dates EXCEPT !.new = Move(dates.new, dates.delta)]
    /\ UNCHANGED <<router, storage, message, metrics, held, rivals, saved,
                   nextid, lastOp, race>>

\* The while loop is left and the turn of the for loop ends (line 38).
get_month_last ==
    /\ dates.pc = "get_month"
    /\ dates.left > 0
    /\ dates.new.month # dates.last.month
    /\ dates' = [dates EXCEPT !.last = dates.new, !.left = @ - 1]
    /\ UNCHANGED <<router, storage, message, metrics, held, rivals, saved,
                   nextid, lastOp, race>>

\* get_month returns new, and make_rotating_tablename the formatted name.
make_rotating_tablename ==
    /\ dates.pc = "get_month"
    /\ dates.left = 0
    /\ dates' = [pc |-> "done", prefix |-> dates.prefix,
                 today |-> dates.today, delta |-> dates.delta,
                 ret |-> TableName(dates.prefix, dates.new)]
    /\ UNCHANGED <<router, storage, message, metrics, held, rivals, saved,
                   nextid, lastOp, race>>

NextMonth ==
    \/ \E today \in Todays, delta \in Deltas : get_month(Prefix, today, delta)
    \/ get_month_move
    \/ get_month_last
    \/ make_rotating_tablename

\* A call under way runs on: no step of it waits for anything.
SpecMonth ==
    /\ Init
    /\ [][NextMonth]_vars
    /\ WF_vars(get_month_move)
    /\ WF_vars(get_month_last)
    /\ WF_vars(make_rotating_tablename)

\* ======================================================== claims: Router
\* In the action formulas below the unprimed variables are the state the
\* call found and lastOp' is the call that made the step.

RegisterAnswered ==
    lastOp'.op = "register_user" /\ lastOp'.store # Throughput

\* The item under u holds every field of data.
Written(tbl, u, data) ==
    /\ u \in DOMAIN tbl
    /\ \A a \in {"node_id", "connected_at", "router_type"} :
          Has(tbl[u], a) /\ tbl[u][a] = data[a]

GreaterOrNoRecord(u, data) ==
    \/ u \notin DOMAIN router
    \/ /\ Has(router[u], "connected_at")
       /\ router[u].connected_at < data.connected_at

SameRouterType(u, data) ==
    \/ ~Has(ItemAt(router, u), "router_type")
    \/ router[u].router_type = data.router_type

\* C1 as stated: a register_user whose connected_at is strictly greater than
\* the stored one, or that finds no record, returns (True, previous
\* attributes) and its fields are written.
C1_GreaterAlwaysSucceeds ==
    [][RegisterAnswered =>
        LET u == lastOp'.args.uaid
            data == lastOp'.args.data
        IN  GreaterOrNoRecord(u, data) =>
                /\ lastOp'.ret = <<TRUE, ItemAt(router, u)>>
                /\ Written(router', u, data)]_vars

\* C1 amended: a register_user whose connected_at is strictly greater than
\* the stored one, or that finds no record, and whose router_type equals the
\* stored router_type when one is stored, returns (True, previous attributes)
\* and its fields are written.
C1_GreaterSucceedsOnSameType ==
    [][RegisterAnswered =>
        LET u == lastOp'.args.uaid
            data == lastOp'.args.data
        IN  (GreaterOrNoRecord(u, data) /\ SameRouterType(u, data)) =>
                /\ lastOp'.ret = <<TRUE, ItemAt(router, u)>>
                /\ Written(router', u, data)]_vars

\* A register_user has succeeded over a record that held a node_id and a
\* smaller connected_at.
C1_Witness ==
    /\ lastOp.op = "register_user"
    /\ lastOp.store = "ok"
    /\ lastOp.ret[1] = TRUE
    /\ Has(lastOp.ret[2], "node_id")
    /\ lastOp.ret[2].connected_at < lastOp.args.data.connected_at
    /\ Written(router, lastOp.args.uaid, lastOp.args.data)

ClearAnswered == lastOp'.op = "clear_node" /\ lastOp'.store # Throughput

\* The stored node_id and connected_at are those of the caller's item.
MatchesSnapshot(stored, item) ==
    /\ Has(stored, "node_id") /\ stored.node_id = item.node_id
    /\ Has(stored, "connected_at") /\ stored.connected_at = item.connected_at

\* C3 as stated: clear_node returns True only when the stored node_id and
\* connected_at equal the snapshot's, and whenever another node's
\* register_user has succeeded on the uaid since the snapshot was read,
\* clear_node returns False and that node_id is still stored afterwards.
C3_AnyRivalFailsClear ==
    [][ClearAnswered =>
        LET u == lastOp'.args.uaid
        IN  /\ lastOp'.ret = TRUE =>
                   MatchesSnapshot(ItemAt(router, u), lastOp'.args.item)
            /\ rivals # {} =>
                   /\ lastOp'.ret = FALSE
                   /\ \A r \in rivals :
                         (Has(ItemAt(router, u), "node_id")
                            /\ router[u].node_id = r)
                         => (Has(ItemAt(router', u), "node_id")
                               /\ router'[u].node_id = r)]_vars

\* C3 amended: clear_node returns True only when the stored node_id and
\* connected_at equal the snapshot's, and whenever another node's
\* register_user has succeeded on the uaid since the snapshot was read and
\* its node_id is the one stored when clear_node runs, clear_node returns
\* False and that node_id is still stored afterwards.
C3_StoredRivalFailsClear ==
    [][ClearAnswered =>
        LET u == lastOp'.args.uaid
            stored == ItemAt(router, u)
        IN  /\ lastOp'.ret = TRUE =>
                   MatchesSnapshot(stored, lastOp'.args.item)
            /\ (Has(stored, "node_id") /\ stored.node_id \in rivals) =>
                   /\ lastOp'.ret = FALSE
                   /\ Has(ItemAt(router', u), "node_id")
                   /\ router'[u].node_id = stored.node_id]_vars

\* A clear_node has been refused while the node_id another node registered
\* after the snapshot is stored.
C3_Witness ==
    /\ lastOp.op = "clear_node"
    /\ lastOp.store = ConditionFailed
    /\ lastOp.ret = FALSE
    /\ Has(ItemAt(router, lastOp.args.uaid), "node_id")
    /\ router[lastOp.args.uaid].node_id \in rivals
    /\ router[lastOp.args.uaid].node_id # lastOp.args.item.node_id

\* C4: while the record of a uaid stays stored, no register_user, clear_node
\* or update_message_month leaves a connected_at smaller than the one stored
\* before.
C4_ConnectedAtMonotonic ==
    [][\A u \in UAIDs :
        (/\ Has(ItemAt(router, u), "connected_at")
         /\ Has(ItemAt(router', u), "connected_at"))
            => router'[u].connected_at >= router[u].connected_at]_vars

\* ======================================================= claims: Storage
Largest(S) == CHOOSE x \in S : \A y \in S : y <= x

\* The stored version is the largest version saved since the key last held
\* no notification.
StoredIsLargestSaved ==
    \A k \in DOMAIN saved :
        /\ k \in DOMAIN storage
        /\ storage[k].version = Largest(saved[k])

\* A save whose version is not above the stored one returns False and leaves
\* the table as it was.
StaleSaveRefused ==
    (lastOp'.op = "save_notification" /\ lastOp'.store # Throughput) =>
        LET k == <<lastOp'.args.uaid, lastOp'.args.chid>>
        IN  (k \in DOMAIN storage
               /\ lastOp'.args.version <= storage[k].version)
            => (lastOp'.ret = FALSE /\ storage' = storage)

\* C5: without intervening deletes the stored version of a (uaid, chid) is the
\* maximum of the versions saved so far, and a save whose version is lower
\* than or equal to the stored one returns False and changes nothing.
C5_SaveMonotonic == []StoredIsLargestSaved /\ [][StaleSaveRefused]_vars

\* A save with a version below the largest saved one has been refused.
C5_Witness ==
    /\ lastOp.op = "save_notification"
    /\ lastOp.store = ConditionFailed
    /\ lastOp.ret = FALSE
    /\ LET k == <<lastOp.args.uaid, lastOp.args.chid>>
       IN  /\ Cardinality(saved[k]) >= 2
           /\ lastOp.args.version < storage[k].version

\* C6: when an expected version is supplied, delete_notification removes the
\* record only if the stored version equals it, returns True exactly when the
\* record was removed, and on a mismatch returns False with the record left
\* in place.
C6_DeleteGuardedByVersion ==
    [][(/\ lastOp'.op = "delete_notification"
        /\ lastOp'.store # Throughput
        /\ lastOp'.args.version # <<>>) =>
        LET k == <<lastOp'.args.uaid, lastOp'.args.chid>>
            removed == k \in DOMAIN storage /\ k \notin DOMAIN storage'
            matches == /\ k \in DOMAIN storage
                       /\ storage[k].version = lastOp'.args.version[1]
        IN  /\ removed => matches
            /\ lastOp'.raised = "none"
            /\ lastOp'.ret = removed
            /\ ~matches => storage' = storage]_vars

\* C8: when the store answers delete_notification with the throughput
\* exception, nothing is raised, False is returned, the counter
\* error.provisioned.delete_notification is incremented once and the table is
\* unchanged.
C8_DeleteSwallowsThrottle ==
    [][(lastOp'.op = "delete_notification" /\ lastOp'.store = Throughput) =>
        /\ lastOp'.raised = "none"
        /\ lastOp'.ret = FALSE
        /\ metrics' = [metrics EXCEPT !["delete_notification"] = @ + 1]
        /\ storage' = storage]_vars

\* A throttled delete_notification has returned False with the notification
\* it named still stored.
C8_Witness ==
    /\ lastOp.op = "delete_notification"
    /\ lastOp.store = Throughput
    /\ lastOp.ret = FALSE
    /\ metrics["delete_notification"] = 1
    /\ <<lastOp.args.uaid, lastOp.args.chid>> \in DOMAIN storage

\* ======================================================= claims: Message

\* C7: whenever the store answers a call of a store operation with the
\* throughput exception, the counter named after the operation is incremented
\* once and the exception reaches the caller.  (No method calls the store in
\* a loop, so none re-issues the call.)
C7_ThrottleCountedAndRaised ==
    [][lastOp'.store = Throughput =>
        /\ lastOp'.op \in DOMAIN metrics
        /\ metrics'[lastOp'.op] = metrics[lastOp'.op] + 1
        /\ lastOp'.raised = Throughput]_vars

\* C9: with an updateid supplied, delete_message removes the message only if
\* the stored updateid equals it, and when the stored message carries another
\* updateid (it was replaced after the caller read it) the delete returns
\* False, raises nothing and the message stays stored.
C9_DeleteGuardedByUpdateid ==
    [][(/\ lastOp'.op = "delete_message"
        /\ lastOp'.store # Throughput
        /\ lastOp'.args.updateid # <<>>) =>
        LET k == <<lastOp'.args.uaid,
                   ChidMessageId(lastOp'.args.chid, lastOp'.args.mid)>>
            removed == k \in DOMAIN message /\ k \notin DOMAIN message'
            replaced == /\ k \in DOMAIN message
                        /\ message[k].updateid # lastOp'.args.updateid[1]
        IN  /\ removed => message[k].updateid = lastOp'.args.updateid[1]
            /\ replaced => /\ lastOp'.raised = "none"
                           /\ lastOp'.ret = FALSE
                           /\ message' = message]_vars

UpdateAnswered ==
    lastOp'.op = "update_message" /\ lastOp'.store # Throughput

UpdateSucceeded == UpdateAnswered /\ lastOp'.ret = TRUE

\* C11 as stated: after a successful update_message the stored data and
\* headers are the supplied ones whenever data is supplied, whatever its
\* value, and both attributes are absent when data is not supplied.
C11_SuppliedDataStored ==
    [][UpdateSucceeded =>
        LET k == <<lastOp'.args.uaid,
                   ChidMessageId(lastOp'.args.chid, lastOp'.args.mid)>>
            item == message'[k]
        IN  /\ lastOp'.args.data # <<>> =>
                   /\ Has(item, "data") /\ Has(item, "headers")
                   /\ item.data = lastOp'.args.data
                   /\ item.headers = lastOp'.args.headers
            /\ lastOp'.args.data = <<>> =>
                   ~Has(item, "data") /\ ~Has(item, "headers")]_vars

\* C11 amended: after a successful update_message the stored data and headers
\* are the supplied ones when data is supplied and not empty; when data is
\* not supplied or is the empty string both attributes are absent.  In
\* either case nothing of the data and headers stored before remains.
C11_NonEmptyDataStored ==
    [][UpdateSucceeded =>
        LET k == <<lastOp'.args.uaid,
                   ChidMessageId(lastOp'.args.chid, lastOp'.args.mid)>>
            item == message'[k]
            empty == \/ lastOp'.args.data = <<>>
                     \/ lastOp'.args.data = <<"">>
        IN  /\ ~empty =>
                   /\ Has(item, "data") /\ Has(item, "headers")
                   /\ item.data = lastOp'.args.data
                   /\ item.headers = lastOp'.args.headers
            /\ empty => ~Has(item, "data") /\ ~Has(item, "headers")]_vars

\* An update_message supplied with empty data and with headers has succeeded,
\* and the message holds neither.
C11_Witness ==
    /\ lastOp.op = "update_message"
    /\ lastOp.store = "ok"
    /\ lastOp.args.data = <<"">>
    /\ lastOp.args.headers = <<"h">>
    /\ LET k == <<lastOp.args.uaid,
                  ChidMessageId(lastOp.args.chid, lastOp.args.mid)>>
       IN  ~Has(message[k], "data") /\ ~Has(message[k], "headers")

\* ====================================================== claims: channels
RegistryChids(tbl, u) == ChidsOf(ItemAt(tbl, RegistryKey(u)))

\* The two tables hold the same items outside the keys K.
SameExcept(before, after, K) ==
    \A k \in (DOMAIN before \cup DOMAIN after) \ K :
        /\ k \in DOMAIN before
        /\ k \in DOMAIN after
        /\ before[k] = after[k]

ChannelCall(name) == lastOp'.op = name /\ lastOp'.store # Throughput

\* C12: register_channel and unregister_channel each take effect as one
\* set-add or set-remove of their chid on the set stored at that moment,
\* whatever calls of other callers came before: the membership of every other
\* chid, and every other record, is as it was.
C12_AtomicSetUpdate ==
    [][/\ ChannelCall("register_channel") =>
            LET u == lastOp'.args.uaid
            IN  /\ RegistryChids(message', u) =
                      RegistryChids(message, u) \cup {lastOp'.args.chid}
                /\ SameExcept(message, message', {RegistryKey(u)})
       /\ ChannelCall("unregister_channel") =>
            LET u == lastOp'.args.uaid
            IN  /\ RegistryChids(message', u) =
                      RegistryChids(message, u) \ {lastOp'.args.chid}
                /\ SameExcept(message, message', {RegistryKey(u)})]_vars

\* An unregister_channel has removed its chid from a set of two, and the
\* other chid is still registered.
C12_Witness ==
    /\ lastOp.op = "unregister_channel"
    /\ lastOp.store = "ok"
    /\ lastOp.ret = TRUE
    /\ lastOp.args.chid = <<"a">>
    /\ RegistryChids(message, lastOp.args.uaid) = {<<"a", "b">>}

\* C13: a register_channel of a chid that is registered already leaves the
\* message table as it was, and an all_channels that follows a
\* register_channel on the same uaid returns (True, set) with the chid in the
\* set.
C13_RegisterIdempotent ==
    [][/\ ChannelCall("register_channel") =>
            (lastOp'.args.chid \in RegistryChids(message, lastOp'.args.uaid)
                => message' = message)
       /\ (/\ ChannelCall("all_channels")
           /\ lastOp.op = "register_channel"
           /\ lastOp.store = "ok"
           /\ lastOp.args.uaid = lastOp'.args.uaid) =>
            /\ lastOp'.ret[1] = TRUE
            /\ lastOp.args.chid \in lastOp'.ret[2]
            /\ Cardinality({c \in lastOp'.ret[2] : c = lastOp.args.chid}) = 1
      ]_vars

\* A register_channel has run on a registry that held its chid, and the
\* registry holds that chid and no other.
C13_Witness ==
    /\ lastOp.op = "register_channel"
    /\ lastOp.store = "ok"
    /\ lastOp.args.chid \in lastOp.before
    /\ RegistryChids(message, lastOp.args.uaid) = {lastOp.args.chid}

MessagesOf(tbl, u, chid) ==
    {k \in DOMAIN tbl :
        k[1] = u /\ \E mid \in MIDs : k[2] = ChidMessageId(chid, mid)}

RecordsOf(tbl, u) == {k \in DOMAIN tbl : k[1] = u}

\* C15: a delete_messages_for_channel that runs with no writer beside it
\* removes the messages of the uaid stored for the chid and no other record
\* (messages of other channels, the registry, other uaids); a fetch_messages
\* of the table it leaves returns no message of the channel; it returns True
\* exactly when the channel had a message.
C15_ChannelMessagesGone ==
    [][ChannelCall("delete_messages_for_channel") =>
        LET u == lastOp'.args.uaid
            mine == MessagesOf(message, u, lastOp'.args.chid)
        IN  /\ DOMAIN message' = DOMAIN message \ mine
            /\ SameExcept(message, message', mine)
            /\ \A limit \in Limits :
                  LET ids == MessageQuery(message', u, limit)
                  IN  \A i \in 1..Len(ids) : <<u, ids[i]>> \notin mine
            /\ lastOp'.ret = (mine # {})]_vars

\* A delete_messages_for_channel of channel "a" has removed a message and
\* returned True, and the user's message of channel "ab" is still stored.
C15_Witness ==
    /\ lastOp.op = "delete_messages_for_channel"
    /\ lastOp.store = "ok"
    /\ lastOp.ret = TRUE
    /\ lastOp.args.chid = <<"a">>
    /\ lastOp.chidmessageids # {}
    /\ MessagesOf(message, lastOp.args.uaid, <<"a">>) = {}
    /\ MessagesOf(message, lastOp.args.uaid, <<"a", "b">>) # {}

\* C16: a delete_user that runs with no writer beside it leaves no record of
\* the uaid, message or registry, and leaves the records of other uaids as
\* they were; an all_channels that follows it returns (False, {}) and a
\* fetch_messages that follows it returns nothing.
C16_UserGone ==
    [][/\ ChannelCall("delete_user") =>
            /\ RecordsOf(message', lastOp'.args.uaid) = {}
            /\ SameExcept(message, message',
                          RecordsOf(message, lastOp'.args.uaid))
       /\ (/\ lastOp.op = "delete_user"
           /\ lastOp.store = "ok"
           /\ lastOp'.args.uaid = lastOp.args.uaid) =>
            /\ ChannelCall("all_channels") => lastOp'.ret = <<FALSE, {}>>
            /\ ChannelCall("fetch_messages") => lastOp'.ret = <<>>]_vars

\* A delete_user has removed the registry and a message of its uaid, none of
\* that uaid's records is stored, and another uaid's records are.
C16_Witness ==
    /\ lastOp.op = "delete_user"
    /\ lastOp.store = "ok"
    /\ Sentinel \in lastOp.chidmessageids
    /\ Cardinality(lastOp.chidmessageids) >= 2
    /\ RecordsOf(message, lastOp.args.uaid) = {}
    /\ message # NoItems

\* C17: fetch_messages returns at most limit records, each a stored record of
\* the uaid, in strictly ascending order of chidmessageid; they are the first
\* of the uaid's records after " " (every such record left out is above all
\* returned ones, and none is left out while fewer than limit are returned);
\* the registry record is never among them.
C17_FetchFirstInOrder ==
    [][ChannelCall("fetch_messages") =>
        LET u == lastOp'.args.uaid
            limit == lastOp'.args.limit
            ret == lastOp'.ret
            got == {ret[i].chidmessageid : i \in 1..Len(ret)}
            rest == {k[2] : k \in RecordsOf(message, u)} \ (got \cup {Sentinel})
        IN  /\ Len(ret) <= limit
            /\ \A i \in 1..Len(ret) :
                  /\ ret[i].uaid = u
                  /\ <<u, ret[i].chidmessageid>> \in DOMAIN message
                  /\ ret[i].item = message[<<u, ret[i].chidmessageid>>]
                  /\ ret[i].chidmessageid # Sentinel
            /\ \A i \in 1..(Len(ret) - 1) :
                  StrLess(ret[i].chidmessageid, ret[i + 1].chidmessageid)
            /\ \A id \in rest : \A g \in got : StrLess(g, id)
            /\ rest # {} => Len(ret) = limit
            /\ message' = message]_vars

\* A fetch_messages with limit 1 has returned the lesser of two stored
\* messages of a uaid that has a registry record.
C17_Witness ==
    /\ lastOp.op = "fetch_messages"
    /\ lastOp.store = "ok"
    /\ lastOp.args.limit = 1
    /\ Len(lastOp.ret) = 1
    /\ lastOp.ret[1].chidmessageid = ChidMessageId(<<"a">>, <<"1">>)
    /\ RegistryKey(lastOp.args.uaid) \in DOMAIN message
    /\ <<lastOp.args.uaid, ChidMessageId(<<"a", "b">>, <<"1">>)>>
          \in DOMAIN message

\* ============================================ claims: Router, continued
\* C18: get_uaid answers a JSONResponseError of the store with ItemNotFound,
\* and a throughput exception never so: it increments
\* error.provisioned.get_uaid once, no other counter, and raises the
\* throughput exception.
C18_GetUaidErrors ==
    [][lastOp'.op = "get_uaid" =>
        /\ lastOp'.store = "JSONResponseError" =>
              /\ lastOp'.raised = "ItemNotFound"
              /\ metrics' = metrics
        /\ lastOp'.store = Throughput =>
              /\ lastOp'.raised = Throughput
              /\ metrics' = [metrics EXCEPT !["get_uaid"] = @ + 1]]_vars

\* A get_uaid of a stored uaid has raised the throughput exception and been
\* counted once.
C18_Witness ==
    /\ lastOp.op = "get_uaid"
    /\ lastOp.store = Throughput
    /\ lastOp.raised = Throughput
    /\ metrics["get_uaid"] = 1
    /\ lastOp.args.uaid \in DOMAIN router

\* C19: drop_user returns True exactly when a record of the uaid is stored,
\* and the record is then gone; with none stored it returns False and the
\* table is unchanged, so a drop_user right after a successful one of the
\* same uaid returns False; the records of other uaids are as before.
C19_DropExisting ==
    [][(lastOp'.op = "drop_user" /\ lastOp'.store # Throughput) =>
        LET u == lastOp'.args.uaid
        IN  /\ lastOp'.raised = "none"
            /\ lastOp'.ret = (u \in DOMAIN router)
            /\ u \notin DOMAIN router'
            /\ u \notin DOMAIN router => router' = router
            /\ SameExcept(router, router', {u})
            /\ (/\ lastOp.op = "drop_user"
                /\ lastOp.store = "ok"
                /\ lastOp.args.uaid = u) => lastOp'.ret = FALSE]_vars

\* A drop_user has returned False for a uaid with no record while the other
\* uaid's record is stored.
C19_Witness ==
    /\ lastOp.op = "drop_user"
    /\ lastOp.store = ConditionFailed
    /\ lastOp.ret = FALSE
    /\ lastOp.args.uaid \notin DOMAIN router
    /\ router # NoItems

\* ==================================================== claims: table names
\* The month text of a table name, written out.
MonthText ==
    <<<<"1">>, <<"2">>, <<"3">>, <<"4">>, <<"5">>, <<"6">>, <<"7">>, <<"8">>,
      <<"9">>, <<"1", "0">>, <<"1", "1">>, <<"1", "2">>>>

\* The name for the month delta calendar months from today's.
NameOfMonth(prefix, today, delta) ==
    LET index == today.year * 12 + (today.month - 1) + delta
    IN  prefix \o <<"_">> \o Decimal(index \div 12) \o <<"_">>
            \o MonthText[(index % 12) + 1]

RightName ==
    dates.pc = "done" =>
        dates.ret = NameOfMonth(dates.prefix, dates.today, dates.delta)

\* C20: for every day of the calendar as today and every delta in
\* -MaxDelta..MaxDelta, get_month terminates and make_rotating_tablename
\* yields the prefix followed by the year and the unpadded month that lie
\* delta calendar months from today's month, on whichever day of the month
\* it runs.
C20_RotatingName ==
    []RightName /\ ((dates.pc = "get_month") ~> (dates.pc = "done"))

\* A call on the 31st of January with delta -1 has named December of the
\* year before.
C20_Witness ==
    /\ dates.pc = "done"
    /\ dates.today = [year |-> 2016, month |-> 1, day |-> 31]
    /\ dates.delta = -1
    /\ dates.ret = Prefix \o <<"_", "2", "0", "1", "5", "_", "1", "2">>

\* =============================================== claims: Router behaviour
\* C21: a clear_node that returns True takes node_id from the stored record
\* and nothing else: connected_at, router_type and current_month are stored
\* after the call exactly as they were before it.
C21_ClearRemovesOnlyNodeId ==
    [][(ClearAnswered /\ lastOp'.ret = TRUE) =>
        LET u == lastOp'.args.uaid
            before == ItemAt(router, u)
            after == ItemAt(router', u)
        IN  /\ ~Has(after, "node_id")
            /\ \A a \in {"connected_at", "router_type", "current_month"} :
                  /\ Has(after, a) <=> Has(before, a)
                  /\ Has(before, a) => after[a] = before[a]]_vars

\* The greatest connected_at of the race.
GreatestTime == CHOOSE t \in RaceTimes :
    /\ \E n \in RaceNodes : race.time[n] = t
    /\ \A n \in RaceNodes : race.time[n] <= t

\* A record that a registration has written holds one node_id, with the
\* connected_at of that node's call.
OneNodePair ==
    \A u \in UAIDs :
        Has(ItemAt(router, u), "connected_at") =>
            /\ Has(router[u], "node_id")
            /\ router[u].node_id \in RaceNodes
            /\ router[u].connected_at = race.time[router[u].node_id]

\* An answered call leaves a connected_at no less than its own and than the
\* one stored before; the call with the greatest leaves its own pair.
GreatestStays ==
    RegisterAnswered =>
        LET u == lastOp'.args.uaid
            data == lastOp'.args.data
        IN  /\ Has(ItemAt(router', u), "connected_at")
            /\ router'[u].connected_at >= data.connected_at
            /\ Has(ItemAt(router, u), "connected_at") =>
                  router'[u].connected_at >= router[u].connected_at
            /\ data.connected_at = GreatestTime =>
                  /\ router'[u].node_id = data.node_id
                  /\ router'[u].connected_at = data.connected_at

\* C22: when nodes race register_user on one uaid from no record, with one
\* router_type, each its node_id and a connected_at of its own, and no
\* clear_node or drop_user, then in every order of the calls the stored
\* connected_at never falls and is at least that of every answered call, so
\* once all are answered the stored (node_id, connected_at) is that of the
\* call with the greatest connected_at; and a written record always holds
\* one node_id, the one of the call that wrote its connected_at.
C22_GreatestWinsRace == []OneNodePair /\ [][GreatestStays]_vars

\* The call of a node with a lesser connected_at has come after the call
\* with the greatest and been refused; the greatest call's pair is stored.
C22_Witness ==
    /\ lastOp.op = "register_user"
    /\ lastOp.store = ConditionFailed
    /\ lastOp.args.data.connected_at < GreatestTime
    /\ Has(ItemAt(router, lastOp.args.uaid), "node_id")
    /\ router[lastOp.args.uaid].connected_at = GreatestTime
    /\ router[lastOp.args.uaid].node_id # lastOp.args.data.node_id
    /\ race.time[router[lastOp.args.uaid].node_id] = GreatestTime
====
